---- MODULE Spec2Model ----
(***************************************************************************)
(* MarkdownAnalyzer of python/notes-to-brightspace-quiz.py: the pipeline   *)
(* driver process_files, the completeness check check_existing_results,    *)
(* the analyzer analyze_content with its chunker, and the gateway          *)
(* query_ollama with its retry loop.                                       *)
(*                                                                         *)
(* A text (a Python str) is a sequence of atoms; the empty str is <<>>.    *)
(* The results directory is a function from artifact files <<stem, kind>>  *)
(* to the origin of their content: "absent" (no such file), "earlier"      *)
(* (left by an earlier run or by the user) or the directory of the         *)
(* document whose analysis was dumped into the file.                       *)
(***************************************************************************)
EXTENDS Integers, Sequences, FiniteSets, TLC

\* ------------------------------------------------------------- bounds
\* longest document text, in characters, handed to analyze_content directly
MaxTextLen == 3
\* chunk_size of split_text_into_chunks (1500 in the source), scaled down
ChunkSize == 2
\* largest retries argument of a direct query_ollama call
MaxRetries == 3
\* largest chunk_size handed to split_text_into_chunks on its own
MaxChunkSize == 3
\* most parts one chat stream yields
MaxParts == 3
\* retries of query_ollama when the caller passes none
DefaultRetries == 3

\* ------------------------------------------------------------- values
EmptyText == <<>>
\* what a Python function returns when it falls off its end
NoneValue == <<"None">>
Chars == {"a", "b"}
Kinds == {"summary", "quiz", "concepts"}
Stems == {"x", "y"}
ArtifactFiles == Stems \X Kinds

RECURSIVE TextsUpTo(_)
TextsUpTo(n) ==
    IF n = 0 THEN {EmptyText}
    ELSE LET shorter == TextsUpTo(n - 1) IN
         shorter \cup {Append(t, c) : t \in {s \in shorter : Len(s) = n - 1}, c \in Chars}

\* the texts of the documents of a notes directory: empty, one chunk long, or
\* text that spells a special token of the encoder
DocTexts == {EmptyText, <<"a", "b", "a">>, <<"<|endoftext|>">>}

\* a markdown file of the notes directory: notes/<dir>/<stem>.md
MdFile(d, s) == [dir |-> d, stem |-> s]
DocOf(p, r, t) == [path |-> p, readable |-> r, text |-> t]
DocStates(p) ==
    {DocOf(p, TRUE, t) : t \in DocTexts} \cup {DocOf(p, FALSE, <<"a">>)}

\* the notes directories: two files with one name in two folders, or two names
NoteLayouts ==
    { <<MdFile("a", "x"), MdFile("b", "x")>>,
      <<MdFile("a", "x"), MdFile("a", "y")>> }

\* the raw texts the model endpoint generates: prose, a JSON number, a JSON
\* list of objects without the asked fields, a JSON list of question objects
RawResponses ==
    { <<"Some prose.">>, <<"42">>, <<"[{\"x\": 1}]">>,
      <<"[{\"question\": \"q\", \"options\": [], \"correct_answer\": \"\"}]">> }

\* the JSON bodies of a 2xx answer: {"response": <text>}, or one without
\* the "response" key
Bodies == {[response |-> t] : t \in RawResponses} \cup {[done |-> <<"true">>]}
\* what is logged of an attempt that raised
NoBody == [error |-> <<"RequestException">>]

VARIABLES
    notes,            \* the documents of notes_dir, in rglob order
    disk,             \* results_dir: ArtifactFiles -> origin
    entry,            \* the method the caller invoked
    pc,               \* position of the run
    md_idx,           \* process_files: index of md_file in md_files
    start,            \* disk when process_files was entered
    written,          \* artifact files opened for writing by this run
    visited,          \* process_files: per visited md_file, the branch taken
    content,          \* analyze_content: its argument
    chunks,           \* analyze_content: split_text_into_chunks(content)
    chunk_idx,        \* analyze_content: index of chunk in chunks
    summaries,
    full_summary,
    quiz_response,
    quiz_questions,
    concept_response,
    concepts,
    summary_data,
    site,             \* the query_ollama call in progress: whose it is
    prompt,           \* query_ollama: its prompt argument
    retries,          \* query_ollama: its retries argument
    attempt,          \* query_ollama: the loop variable
    outcomes,         \* query_ollama: the requests posted by this call
    sleeps,           \* query_ollama: the time.sleep calls of this call
    result,           \* what the last query_ollama call returned
    calls,            \* query_ollama calls since entry
    posted,           \* requests.post calls of the analysis or direct call in progress
    chunk_size,       \* split_text_into_chunks: its chunk_size argument
    chunk_tokens,     \* split_text_into_chunks: the chunk_tokens slices, in loop order
    chunk_results,    \* analyze_content: what each summary call returned, in loop order
    attempt_log,      \* query_ollama: the logger records of this call
    received,         \* chat: the parts the stream has yielded
    console,          \* chat: what print has written
    out_file,         \* chat: the content of OUTPUT_FILE
    out_before        \* chat: the content of OUTPUT_FILE when chat() was entered

env == <<notes, disk>>
drv == <<md_idx, start, written, visited>>
ana == <<content, chunks, chunk_idx, summaries, full_summary, quiz_response,
         quiz_questions, concept_response, concepts, summary_data,
         chunk_size, chunk_tokens, chunk_results>>
gw == <<site, prompt, retries, attempt, outcomes, sleeps, attempt_log>>
chat == <<received, console, out_file, out_before>>
vars == <<env, entry, pc, drv, ana, gw, result, calls, posted, chat>>

\* ------------------------------------------------- get_markdown_files
md_files == [i \in 1..Len(notes) |-> notes[i].path]

\* ------------------------------------------------- read_markdown_file
read_markdown_file(doc) == IF doc.readable THEN doc.text ELSE EmptyText

\* ---------------------------------------------- check_existing_results
ResultFile(md_file, kind) == <<md_file.stem, kind>>
Exists(d, f) == d[f] # "absent"
check_existing_results_any(md_file) ==
    \E k \in Kinds : Exists(disk, ResultFile(md_file, k))
check_existing_results_misnamed(md_file) ==
    \A k \in Kinds \cup {"concept"} :
        /\ <<md_file.stem, k>> \in ArtifactFiles
        /\ Exists(disk, <<md_file.stem, k>>)
check_existing_results(md_file) ==
    \A k \in Kinds : Exists(disk, ResultFile(md_file, k))

\* ------------------------------------------------------------ encoder
\* encoder.encode: a token is one character, or the pair "a","b" merged
RECURSIVE Encode(_)
Encode(text) ==
    IF Len(text) = 0 THEN <<>>
    ELSE IF Len(text) >= 2 /\ text[1] = "a" /\ text[2] = "b"
         THEN <<SubSeq(text, 1, 2)>> \o Encode(SubSeq(text, 3, Len(text)))
         ELSE <<SubSeq(text, 1, 1)>> \o Encode(SubSeq(text, 2, Len(text)))

\* encoder.encode raises ValueError on text that spells a special token
EncodeRaises(text) == \E n \in 1..Len(text) : text[n] = "<|endoftext|>"

RECURSIVE Decode(_)
Decode(tokens) ==
    IF Len(tokens) = 0 THEN EmptyText
    ELSE Head(tokens) \o Decode(Tail(tokens))

\* ---------------------------------------------- split_text_into_chunks
Min(a, b) == IF a < b THEN a ELSE b

\* tokens[i:i + chunk_size], i counted from 1
SliceOneMore(tokens, i, size) == SubSeq(tokens, i, Min(i + size, Len(tokens)))
Slice(tokens, i, size) == SubSeq(tokens, i, Min(i + size - 1, Len(tokens)))

RECURSIVE ChunksFrom(_, _, _)
ChunksFrom(tokens, i, size) ==
    IF i > Len(tokens) THEN <<>>
    ELSE <<Decode(Slice(tokens, i, size))>> \o ChunksFrom(tokens, i + size, size)

\* the values chunk_tokens takes in the loop
RECURSIVE SlicesFrom(_, _, _)
SlicesFrom(tokens, i, size) ==
    IF i > Len(tokens) THEN <<>>
    ELSE <<Slice(tokens, i, size)>> \o SlicesFrom(tokens, i + size, size)

split_text_into_chunks(text, size) == ChunksFrom(Encode(text), 1, size)

\* ------------------------------------------------------------ prompts
summary_prompt(chunk) == [template |-> "summary", body |-> chunk]
quiz_prompt == [template |-> "quiz", body |-> EmptyText]
concept_prompt == [template |-> "concept", body |-> EmptyText]
NoPrompt == [template |-> "none", body |-> EmptyText]

\* "\n".join(summaries)
RECURSIVE JoinLines(_)
JoinLines(ss) ==
    IF Len(ss) = 0 THEN EmptyText
    ELSE IF Len(ss) = 1 THEN ss[1]
    ELSE ss[1] \o <<"\n">> \o JoinLines(Tail(ss))

\* ---------------------------------------------------------- json.loads
\* A parsed JSON value is [kind, items]; kind "list" carries its objects.
JsonNumber == [kind |-> "number", items |-> <<>>]
JsonList(items) == [kind |-> "list", items |-> items]
NoJson == [kind |-> "unset", items |-> <<>>]

\* ok = FALSE stands for json.JSONDecodeError
JsonLoads(raw) ==
    CASE raw = <<"42">> -> [ok |-> TRUE, value |-> JsonNumber]
      [] raw = <<"[{\"x\": 1}]">> ->
            [ok |-> TRUE, value |-> JsonList(<<[x |-> <<"1">>]>>)]
      [] raw = <<"[{\"question\": \"q\", \"options\": [], \"correct_answer\": \"\"}]">> ->
            [ok |-> TRUE,
             value |-> JsonList(<<[question |-> <<"q">>, options |-> <<>>,
                                   correct_answer |-> EmptyText]>>)]
      [] OTHER -> [ok |-> FALSE, value |-> NoJson]

\* the try/except around json.loads(quiz_response)
QuizFallbackEmpty(raw) == JsonList(<<>>)
CoerceQuizDropsRaw(raw) ==
    IF JsonLoads(raw).ok THEN JsonLoads(raw).value ELSE QuizFallbackEmpty(raw)
CoerceQuiz(raw) ==
    IF JsonLoads(raw).ok THEN JsonLoads(raw).value
    ELSE JsonList(<<[question |-> raw, options |-> <<>>, correct_answer |-> EmptyText]>>)

\* the try/except around json.loads(concept_response)
CoerceConcepts(raw) ==
    IF JsonLoads(raw).ok THEN JsonLoads(raw).value
    ELSE JsonList(<<[term |-> raw, category |-> <<"uncategorized">>]>>)

NoSummaryData == [summary |-> EmptyText, length |-> 0, chunks_processed |-> 0]

\* ------------------------------------------------------- query_ollama
\* time.sleep(2 ** attempt)
BackoffDoubled(a) == 2 ^ (a + 1)
Backoff(a) == 2 ^ a

\* if attempt < retries - 1
SleepsAfterLast(a, n) == a < n
MoreAttempts(a, n) == a < n - 1

\* response.json().get("response", "")
ResponseText(body) ==
    IF "response" \in DOMAIN body THEN body.response ELSE EmptyText

\* if summary:
TruthyAlways(r) == TRUE
Truthy(r) == r # EmptyText /\ r # NoneValue

\* logger.warning(f"Attempt {attempt + 1} failed: {e}")
FailedWarningZeroBased(a) == [level |-> "warning", attempt |-> a, outcome |-> "failed"]
FailedWarning(a) == [level |-> "warning", attempt |-> a + 1, outcome |-> "failed"]

\* logger.error(f"Failed to query Ollama after {retries} attempts")
GaveUpError(n) == [level |-> "error", attempt |-> n, outcome |-> "gave up"]

\* entering query_ollama(p) from call site s
StartCall(p, s) ==
    /\ site' = s
    /\ prompt' = p
    /\ retries' = DefaultRetries
    /\ attempt' = 0
    /\ outcomes' = <<>>
    /\ sleeps' = <<>>
    /\ attempt_log' = <<>>
    /\ calls' = calls + 1
    /\ pc' = "post"

\* analyze_content after its last query_ollama call returned r; back in
\* process_files the frames of query_ollama are gone
AfterConcept(r, out, sl, lg) ==
    /\ concept_response' = r
    /\ concepts' = CoerceConcepts(r)
    /\ summary_data' = [summary |-> full_summary, length |-> Len(content),
                        chunks_processed |-> Len(chunks)]
    /\ IF entry = "analyze_content"
         THEN /\ pc' = "returned"
              /\ outcomes' = out
              /\ sleeps' = sl
              /\ attempt_log' = lg
              /\ UNCHANGED <<site, prompt, attempt>>
         ELSE /\ pc' = "save_summary"
              /\ outcomes' = <<>>
              /\ sleeps' = <<>>
              /\ attempt_log' = <<>>
              /\ site' = "none"
              /\ prompt' = NoPrompt
              /\ attempt' = 0
    /\ UNCHANGED <<chunk_idx, summaries, full_summary, quiz_response,
                   quiz_questions, content, chunks, retries, calls,
                   chunk_size, chunk_tokens, chunk_results>>

AfterQuiz(r) ==
    /\ quiz_response' = r
    /\ quiz_questions' = CoerceQuiz(r)
    /\ StartCall(concept_prompt, "concept")
    /\ UNCHANGED <<chunk_idx, summaries, full_summary, concept_response,
                   concepts, summary_data, content, chunks,
                   chunk_size, chunk_tokens, chunk_results>>

\* a chunk loop that asks again for a chunk whose summary came back empty
AfterSummaryAskAgain(r) ==
    LET sums == IF Truthy(r) THEN Append(summaries, r) ELSE summaries IN
    /\ summaries' = sums
    /\ chunk_results' = IF Truthy(r) THEN Append(chunk_results, r) ELSE chunk_results
    /\ IF ~Truthy(r)
         THEN /\ StartCall(summary_prompt(chunks[chunk_idx]), "summary")
              /\ UNCHANGED <<chunk_idx, full_summary>>
         ELSE IF chunk_idx < Len(chunks)
         THEN /\ chunk_idx' = chunk_idx + 1
              /\ StartCall(summary_prompt(chunks[chunk_idx + 1]), "summary")
              /\ UNCHANGED full_summary
         ELSE /\ full_summary' = JoinLines(sums)
              /\ StartCall(quiz_prompt, "quiz")
              /\ UNCHANGED chunk_idx
    /\ UNCHANGED <<quiz_response, quiz_questions, concept_response, concepts,
                   summary_data, content, chunks, chunk_size, chunk_tokens>>

AfterSummary(r) ==
    LET sums == IF Truthy(r) THEN Append(summaries, r) ELSE summaries IN
    /\ summaries' = sums
    /\ chunk_results' = Append(chunk_results, r)
    /\ IF chunk_idx < Len(chunks)
         THEN /\ chunk_idx' = chunk_idx + 1
              /\ StartCall(summary_prompt(chunks[chunk_idx + 1]), "summary")
              /\ UNCHANGED full_summary
         ELSE /\ full_summary' = JoinLines(sums)
              /\ StartCall(quiz_prompt, "quiz")
              /\ UNCHANGED chunk_idx
    /\ UNCHANGED <<quiz_response, quiz_questions, concept_response, concepts,
                   summary_data, content, chunks, chunk_size, chunk_tokens>>

\* query_ollama returns r to its caller, which runs on to its next call
Resume(r, out, sl, lg) ==
    /\ result' = r
    /\ CASE entry = "query_ollama" ->
              /\ pc' = "returned"
              /\ outcomes' = out
              /\ sleeps' = sl
              /\ attempt_log' = lg
              /\ UNCHANGED <<ana, site, prompt, retries, attempt, calls>>
         [] entry # "query_ollama" /\ site = "summary" -> AfterSummary(r)
         [] entry # "query_ollama" /\ site = "quiz" -> AfterQuiz(r)
         [] entry # "query_ollama" /\ site = "concept" -> AfterConcept(r, out, sl, lg)

\* the count of requests, kept while the analysis or the direct call lasts
Posted(n) == IF pc' = "save_summary" THEN 0 ELSE n

\* requests.post succeeds but the loop goes on to its next attempt
PostOkNoReturn ==
    /\ pc = "post"
    /\ \E body \in Bodies :
          LET out == Append(outcomes, [ok |-> TRUE, body |-> body]) IN
          IF attempt + 1 < retries
            THEN /\ pc' = "post"
                 /\ attempt' = attempt + 1
                 /\ outcomes' = out
                 /\ UNCHANGED <<ana, site, prompt, retries, sleeps, result, calls,
                                attempt_log>>
            ELSE Resume(NoneValue, out, sleeps, attempt_log)
    /\ posted' = Posted(posted + 1)
    /\ UNCHANGED <<env, entry, drv, chat>>

\* requests.post succeeds (2xx) and its JSON body is read
PostOk ==
    /\ pc = "post"
    /\ \E body \in Bodies :
          Resume(ResponseText(body),
                 Append(outcomes, [ok |-> TRUE, body |-> body]), sleeps,
                 attempt_log)
    /\ posted' = Posted(posted + 1)
    /\ UNCHANGED <<env, entry, drv, chat>>

\* requests.post raises a RequestException: connection, timeout, non-2xx
PostFail ==
    /\ pc = "post"
    /\ LET out == Append(outcomes, [ok |-> FALSE, body |-> NoBody])
           lg == Append(attempt_log, FailedWarning(attempt))
       IN
       IF MoreAttempts(attempt, retries)
         THEN /\ pc' = "sleep"
              /\ outcomes' = out
              /\ attempt_log' = lg
              /\ UNCHANGED <<ana, site, prompt, retries, attempt, sleeps,
                             result, calls>>
         ELSE Resume(EmptyText, out, sleeps, Append(lg, GaveUpError(retries)))
    /\ posted' = Posted(posted + 1)
    /\ UNCHANGED <<env, entry, drv, chat>>

\* time.sleep(2 ** attempt), then the next iteration of the for loop
Sleep ==
    /\ pc = "sleep"
    /\ LET sl == Append(sleeps, Backoff(attempt)) IN
       IF attempt + 1 < retries
         THEN /\ pc' = "post"
              /\ attempt' = attempt + 1
              /\ sleeps' = sl
              /\ UNCHANGED <<ana, site, prompt, retries, outcomes, result,
                             calls, attempt_log>>
         ELSE Resume(NoneValue, outcomes, sl, attempt_log)
    /\ posted' = Posted(posted)
    /\ UNCHANGED <<env, entry, drv, chat>>

\* ---------------------------------------------------- analyze_content
\* entering analyze_content(c): the chunks, then the first call
EnterAnalyze(c) ==
    LET cs == split_text_into_chunks(c, ChunkSize) IN
    /\ content' = c
    /\ chunk_size' = ChunkSize
    /\ chunk_tokens' = SlicesFrom(Encode(c), 1, ChunkSize)
    /\ chunk_results' = <<>>
    /\ chunks' = cs
    /\ summaries' = <<>>
    /\ quiz_response' = EmptyText
    /\ quiz_questions' = NoJson
    /\ concept_response' = EmptyText
    /\ concepts' = NoJson
    /\ summary_data' = NoSummaryData
    /\ posted' = 0
    /\ IF Len(cs) > 0
         THEN /\ chunk_idx' = 1
              /\ full_summary' = EmptyText
              /\ StartCall(summary_prompt(cs[1]), "summary")
         ELSE /\ chunk_idx' = 0
              /\ full_summary' = JoinLines(<<>>)
              /\ StartCall(quiz_prompt, "quiz")

\* the caller invokes analyze_content(content) itself
Analyze ==
    /\ pc = "call"
    /\ entry = "analyze_content"
    /\ EnterAnalyze(content)
    /\ UNCHANGED <<env, entry, drv, result, chat>>

\* ------------------------------------------------------ process_files
AllComplete(d) ==
    \A i \in 1..Len(notes) : \A k \in Kinds : Exists(d, ResultFile(notes[i].path, k))

Present(md_file) == {k \in Kinds : Exists(disk, ResultFile(md_file, k))}

Visit(md_file, branch) ==
    [file |-> md_file, branch |-> branch, present |-> Present(md_file)]

\* the user deletes one artifact file between two runs
DeleteArtifact ==
    /\ pc = "idle"
    /\ \E f \in ArtifactFiles :
          /\ Exists(disk, f)
          /\ disk' = [disk EXCEPT ![f] = "absent"]
    /\ UNCHANGED <<notes, entry, pc, drv, ana, gw, result, calls, posted, chat>>

\* process_files is entered: md_files = self.get_markdown_files()
StartRun ==
    /\ pc = "idle"
    /\ pc' = "loop"
    /\ md_idx' = 1
    /\ start' = disk
    /\ written' = {}
    /\ visited' = <<>>
    /\ UNCHANGED <<env, entry, ana, gw, result, calls, posted, chat>>

\* if self.check_existing_results(md_file): continue
SkipExisting ==
    /\ pc = "loop"
    /\ md_idx <= Len(notes)
    /\ check_existing_results(md_files[md_idx])
    /\ visited' = Append(visited, Visit(md_files[md_idx], "skipped"))
    /\ md_idx' = md_idx + 1
    /\ UNCHANGED <<env, entry, pc, start, written, ana, gw, result, calls, posted, chat>>

\* content = self.read_markdown_file(md_file); if not content: continue
SkipEmpty ==
    /\ pc = "loop"
    /\ md_idx <= Len(notes)
    /\ ~check_existing_results(md_files[md_idx])
    /\ read_markdown_file(notes[md_idx]) = EmptyText
    /\ visited' = Append(visited, Visit(md_files[md_idx], "empty"))
    /\ md_idx' = md_idx + 1
    /\ UNCHANGED <<env, entry, pc, start, written, ana, gw, result, calls, posted, chat>>

\* ... = self.analyze_content(content)
AnalyzeFile ==
    /\ pc = "loop"
    /\ md_idx <= Len(notes)
    /\ ~check_existing_results(md_files[md_idx])
    /\ read_markdown_file(notes[md_idx]) # EmptyText
    /\ ~EncodeRaises(read_markdown_file(notes[md_idx]))
    /\ visited' = Append(visited, Visit(md_files[md_idx], "analyzed"))
    /\ EnterAnalyze(read_markdown_file(notes[md_idx]))
    /\ UNCHANGED <<env, entry, md_idx, start, written, result, chat>>

\* the frames of analyze_content and query_ollama are gone
DropLocals ==
    /\ content' = EmptyText
    /\ chunks' = <<>>
    /\ chunk_idx' = 0
    /\ summaries' = <<>>
    /\ full_summary' = EmptyText
    /\ quiz_response' = EmptyText
    /\ quiz_questions' = NoJson
    /\ concept_response' = EmptyText
    /\ concepts' = NoJson
    /\ summary_data' = NoSummaryData
    /\ site' = "none"
    /\ prompt' = NoPrompt
    /\ attempt' = 0
    /\ outcomes' = <<>>
    /\ sleeps' = <<>>
    /\ attempt_log' = <<>>
    /\ chunk_tokens' = <<>>
    /\ chunk_results' = <<>>
    /\ result' = EmptyText
    /\ posted' = 0
    /\ UNCHANGED <<retries, calls, chunk_size>>

\* split_text_into_chunks raises inside analyze_content; nothing in
\* process_files or main catches it, the process ends with the traceback
AnalyzeRaises ==
    /\ pc = "loop"
    /\ md_idx <= Len(notes)
    /\ ~check_existing_results(md_files[md_idx])
    /\ read_markdown_file(notes[md_idx]) # EmptyText
    /\ EncodeRaises(read_markdown_file(notes[md_idx]))
    /\ visited' = Append(visited, Visit(md_files[md_idx], "raised"))
    /\ pc' = "aborted"
    /\ UNCHANGED <<env, entry, md_idx, start, written, ana, gw, result, calls,
                   posted, chat>>

\* the file a save step is about to open
SaveKind ==
    CASE pc = "save_summary" -> "summary"
      [] pc = "save_quiz" -> "quiz"
      [] pc = "save_concepts" -> "concepts"

\* what an interrupted save leaves: the open did not happen, or the file
\* was created or truncated by open(..., 'w') and json.dump did not finish
Interrupted(kind) ==
    \/ UNCHANGED disk
    \/ disk' = [disk EXCEPT ![ResultFile(md_files[md_idx], kind)] = "partial"]

\* open or json.dump raises an OSError; nothing catches it, the process ends
DumpFails ==
    /\ pc \in {"save_summary", "save_quiz", "save_concepts"}
    /\ Interrupted(SaveKind)
    /\ pc' = "aborted"
    /\ DropLocals
    /\ UNCHANGED <<notes, entry, drv, chat>>

\* the process is killed during the three saves
Crash ==
    /\ pc \in {"save_summary", "save_quiz", "save_concepts"}
    /\ Interrupted(SaveKind)
    /\ pc' = "crashed"
    /\ DropLocals
    /\ UNCHANGED <<notes, entry, drv, chat>>

\* with open(<file>, 'w') as f: json.dump(<data>, f)
Dump(kind) ==
    LET f == ResultFile(md_files[md_idx], kind) IN
    /\ disk' = [disk EXCEPT ![f] = md_files[md_idx].dir]
    /\ written' = written \cup {f}

SaveSummary ==
    /\ pc = "save_summary"
    /\ Dump("summary")
    /\ pc' = "save_quiz"
    /\ UNCHANGED <<notes, entry, md_idx, start, visited, ana, gw, result, calls, posted, chat>>

SaveQuiz ==
    /\ pc = "save_quiz"
    /\ Dump("quiz")
    /\ pc' = "save_concepts"
    /\ UNCHANGED <<notes, entry, md_idx, start, visited, ana, gw, result, calls, posted, chat>>

\* the last dump of the iteration; its locals go out of use
SaveConcepts ==
    /\ pc = "save_concepts"
    /\ Dump("concepts")
    /\ pc' = "loop"
    /\ md_idx' = md_idx + 1
    /\ content' = EmptyText
    /\ chunks' = <<>>
    /\ chunk_idx' = 0
    /\ summaries' = <<>>
    /\ full_summary' = EmptyText
    /\ quiz_response' = EmptyText
    /\ quiz_questions' = NoJson
    /\ concept_response' = EmptyText
    /\ concepts' = NoJson
    /\ summary_data' = NoSummaryData
    /\ site' = "none"
    /\ prompt' = NoPrompt
    /\ attempt' = 0
    /\ outcomes' = <<>>
    /\ sleeps' = <<>>
    /\ attempt_log' = <<>>
    /\ chunk_tokens' = <<>>
    /\ chunk_results' = <<>>
    /\ result' = EmptyText
    /\ posted' = 0
    /\ UNCHANGED <<notes, entry, start, visited, retries, calls, chunk_size, chat>>

\* the for loop is exhausted: process_files returns
Finish ==
    /\ pc = "loop"
    /\ md_idx > Len(notes)
    /\ pc' = "done"
    /\ UNCHANGED <<env, entry, drv, ana, gw, result, calls, posted, chat>>

\* the process exits; the results directory stays for the next run
Exit ==
    /\ pc = "done"
    /\ pc' = "idle"
    /\ md_idx' = 0
    /\ start' = disk
    /\ written' = {}
    /\ visited' = <<>>
    /\ calls' = 0
    /\ posted' = 0
    /\ UNCHANGED <<env, entry, ana, gw, result, chat>>

\* ---------------------------------------------------- specifications
NoChat ==
    /\ received = <<>>
    /\ console = EmptyText
    /\ out_file = EmptyText
    /\ out_before = EmptyText

InitLocals ==
    /\ chunks = <<>>
    /\ chunk_tokens = <<>>
    /\ chunk_results = <<>>
    /\ attempt_log = <<>>
    /\ chunk_idx = 0
    /\ summaries = <<>>
    /\ full_summary = EmptyText
    /\ quiz_response = EmptyText
    /\ quiz_questions = NoJson
    /\ concept_response = EmptyText
    /\ concepts = NoJson
    /\ summary_data = NoSummaryData
    /\ attempt = 0
    /\ outcomes = <<>>
    /\ sleeps = <<>>
    /\ result = EmptyText
    /\ calls = 0
    /\ posted = 0
    /\ md_idx = 0
    /\ written = {}
    /\ visited = <<>>

NoDisk == [f \in ArtifactFiles |-> "absent"]

\* main(): a notes directory, a results directory, then process_files
Init ==
    /\ entry = "process_files"
    /\ pc = "idle"
    /\ \E layout \in NoteLayouts :
          /\ notes \in {<<d1, d2>> : d1 \in DocStates(layout[1]), d2 \in DocStates(layout[2])}
          /\ disk \in {d \in [ArtifactFiles -> {"absent", "earlier"}] :
                         \A f \in ArtifactFiles :
                            (\A i \in 1..2 : layout[i].stem # f[1]) => d[f] = "absent"}
    /\ start = disk
    /\ content = EmptyText
    /\ site = "none"
    /\ prompt = NoPrompt
    /\ retries = DefaultRetries
    /\ chunk_size = ChunkSize
    /\ NoChat
    /\ InitLocals

Next ==
    \/ DeleteArtifact \/ StartRun \/ SkipExisting \/ SkipEmpty \/ AnalyzeFile
    \/ PostOk \/ PostFail \/ Sleep
    \/ SaveSummary \/ SaveQuiz \/ SaveConcepts \/ Finish \/ Exit
    \/ AnalyzeRaises \/ DumpFails \/ Crash

Spec == Init /\ [][Next]_vars

\* analyze_content called on any text
InitAnalyze ==
    /\ entry = "analyze_content"
    /\ pc = "call"
    /\ notes = <<>>
    /\ disk = NoDisk
    /\ start = NoDisk
    /\ content \in TextsUpTo(MaxTextLen)
    /\ site = "none"
    /\ prompt = NoPrompt
    /\ retries = DefaultRetries
    /\ chunk_size = ChunkSize
    /\ NoChat
    /\ InitLocals

NextAnalyze == Analyze \/ PostOk \/ PostFail \/ Sleep

SpecAnalyze == InitAnalyze /\ [][NextAnalyze]_vars

\* query_ollama called with any prompt and retries
InitQuery ==
    /\ entry = "query_ollama"
    /\ pc = "post"
    /\ notes = <<>>
    /\ disk = NoDisk
    /\ start = NoDisk
    /\ content = EmptyText
    /\ site = "direct"
    /\ prompt \in {quiz_prompt, concept_prompt}
                    \cup {summary_prompt(t) : t \in TextsUpTo(MaxTextLen) \ {EmptyText}}
    /\ retries \in 1..MaxRetries
    /\ chunk_size = ChunkSize
    /\ NoChat
    /\ InitLocals

NextQuery == PostOk \/ PostFail \/ Sleep

SpecQuery == InitQuery /\ [][NextQuery]_vars

\* split_text_into_chunks called on any text with any chunk_size
\* one pass of: for i in range(0, len(tokens), chunk_size)
SplitStep ==
    /\ entry = "split_text_into_chunks"
    /\ pc = "split"
    /\ LET tokens == Encode(content)
           i == Len(chunks) * chunk_size + 1
       IN
       /\ i <= Len(tokens)
       /\ chunk_tokens' = Append(chunk_tokens, Slice(tokens, i, chunk_size))
       /\ chunks' = Append(chunks, Decode(Slice(tokens, i, chunk_size)))
    /\ UNCHANGED <<env, entry, pc, drv, content, chunk_idx, summaries, full_summary,
                   quiz_response, quiz_questions, concept_response, concepts,
                   summary_data, chunk_size, chunk_results, gw, result, calls,
                   posted, chat>>

\* the range is exhausted: return chunks
SplitReturn ==
    /\ entry = "split_text_into_chunks"
    /\ pc = "split"
    /\ Len(chunks) * chunk_size + 1 > Len(Encode(content))
    /\ pc' = "returned"
    /\ UNCHANGED <<env, entry, drv, ana, gw, result, calls, posted, chat>>

InitSplit ==
    /\ entry = "split_text_into_chunks"
    /\ pc = "split"
    /\ notes = <<>>
    /\ disk = NoDisk
    /\ start = NoDisk
    /\ content \in TextsUpTo(MaxTextLen)
    /\ site = "none"
    /\ prompt = NoPrompt
    /\ retries = DefaultRetries
    /\ chunk_size \in 1..MaxChunkSize
    /\ NoChat
    /\ InitLocals

NextSplit == SplitStep \/ SplitReturn

SpecSplit == InitSplit /\ [][NextSplit]_vars

\* ------------------------------------------- the streaming chat scripts
\* part['message']['content'] of one streamed part; the last part may be empty
PartContents == {EmptyText, <<"a">>, <<"b", "a">>}

\* what OUTPUT_FILE may hold before the script runs; absent reads as empty
EarlierOutputs == {EmptyText, <<"o", "l", "d">>}

\* open(OUTPUT_FILE, mode): the content the open leaves in the file
OpenedForWrite(old) == EmptyText
OpenedForAppend(old) == old

\* f.write(content) on a file opened for append, then f.flush()
WriteFlush(old, text) == old \o text

\* chat() up to the first part: prompt-and-record opens OUTPUT_FILE
StartChat ==
    /\ pc = "chat"
    /\ pc' = "stream"
    /\ out_file' = IF entry = "prompt-and-record" THEN OpenedForAppend(out_file)
                   ELSE out_file
    /\ UNCHANGED <<env, entry, drv, ana, gw, result, calls, posted, received,
                   console, out_before>>

\* one pass of the async for: the stream yields a part, it is printed and,
\* in prompt-and-record, written and flushed
ReceivePart ==
    /\ pc = "stream"
    /\ Len(received) < MaxParts
    /\ \E part \in PartContents :
          /\ received' = Append(received, part)
          /\ console' = console \o part
          /\ out_file' = IF entry = "prompt-and-record" THEN WriteFlush(out_file, part)
                         ELSE out_file
    /\ UNCHANGED <<env, entry, pc, drv, ana, gw, result, calls, posted, out_before>>

\* the stream is exhausted: the with block closes the file, chat() returns
StreamEnd ==
    /\ pc = "stream"
    /\ pc' = "done"
    /\ UNCHANGED <<env, entry, drv, ana, gw, result, calls, posted, chat>>

\* either script run with any earlier content of the output file
InitChat ==
    /\ entry \in {"prompt-and-record", "async-stream-1"}
    /\ pc = "chat"
    /\ notes = <<>>
    /\ disk = NoDisk
    /\ start = NoDisk
    /\ content = EmptyText
    /\ site = "none"
    /\ prompt = NoPrompt
    /\ retries = DefaultRetries
    /\ chunk_size = ChunkSize
    /\ received = <<>>
    /\ console = EmptyText
    /\ out_file \in EarlierOutputs
    /\ out_before = out_file
    /\ InitLocals

NextChat == StartChat \/ ReceivePart \/ StreamEnd

SpecChat == InitChat /\ [][NextChat]_vars

\* ------------------------------------------------------------- claims
Running == pc \notin {"idle", "call"}

\* C1: a run of process_files that starts with all three artifact files of
\* every document present calls query_ollama zero times, posts no request
\* and writes no artifact file.
C1_Idempotent ==
    (entry = "process_files" /\ Running /\ AllComplete(start)) =>
        /\ calls = 0
        /\ posted = 0
        /\ written = {}
        /\ disk = start

\* a second run, over the artifacts an earlier run of this program dumped
C1_Witness ==
    /\ pc = "done"
    /\ AllComplete(start)
    /\ Len(visited) = 2
    /\ \E i \in 1..2 :
          /\ read_markdown_file(notes[i]) # EmptyText
          /\ \A k \in Kinds : start[ResultFile(md_files[i], k)] = md_files[i].dir

\* C2: when the run starts with every artifact of every document present
\* but exactly one file of document D, the finished run has written all
\* three files of D and has neither written nor changed a file of any
\* other document.
OneMissing(i, k) ==
    /\ ~Exists(start, ResultFile(md_files[i], k))
    /\ \A f \in ArtifactFiles \ {ResultFile(md_files[i], k)} :
          (\E j \in 1..Len(notes) : f[1] = md_files[j].stem) => Exists(start, f)

C2_Resumable ==
    (entry = "process_files" /\ pc = "done") =>
        \A i \in 1..Len(notes) : \A k \in Kinds :
            OneMissing(i, k) =>
                /\ \A k2 \in Kinds : ResultFile(md_files[i], k2) \in written
                /\ \A j \in 1..Len(notes) : \A k2 \in Kinds :
                      j # i =>
                        /\ ResultFile(md_files[j], k2) \notin written
                        /\ disk[ResultFile(md_files[j], k2)]
                             = start[ResultFile(md_files[j], k2)]

\* C3: a visited document takes the skip branch of check_existing_results
\* if and only if all three of its artifact files exist; with any proper
\* subset of them on disk it is not skipped.
C3_CompleteIffAllThree ==
    \A i \in 1..Len(visited) :
        (visited[i].branch = "skipped") <=> (visited[i].present = Kinds)

C3_Witness ==
    \E i \in 1..Len(visited) :
        /\ visited[i].branch # "skipped"
        /\ Cardinality(visited[i].present) = 2

\* C4 as stated: the k-th sleep of a query_ollama call, after the k-th
\* failed attempt, lasts at least 2^k seconds (2 s, then 4 s).
C4_DelaysAsClaimed ==
    \A k \in 1..Len(sleeps) : sleeps[k] >= 2 ^ k

\* C4 as amended: the k-th sleep of a query_ollama call follows the k-th
\* failed attempt and lasts 2^(k-1) seconds (1 s, then 2 s).
C4_BackoffDelays ==
    /\ Len(sleeps) <= Len(outcomes)
    /\ \A k \in 1..Len(sleeps) :
          /\ ~outcomes[k].ok
          /\ sleeps[k] = 2 ^ (k - 1)

C4_Witness ==
    /\ Len(sleeps) = 2
    /\ Len(outcomes) = 3

\* C5: query_ollama stops at its first successful attempt: a success is
\* the last request of the call, the call has returned that response's
\* text, it posted exactly k requests and slept only before them.
C5_StopsAtFirstSuccess ==
    \A k \in 1..Len(outcomes) :
        outcomes[k].ok =>
            /\ k = Len(outcomes)
            /\ posted = k
            /\ pc = "returned"
            /\ "response" \in DOMAIN outcomes[k].body => result = outcomes[k].body.response
            /\ "response" \notin DOMAIN outcomes[k].body => result = EmptyText
            /\ Len(sleeps) = k - 1

C5_Witness ==
    /\ pc = "returned"
    /\ Len(outcomes) = 3
    /\ ~outcomes[1].ok
    /\ ~outcomes[2].ok
    /\ outcomes[3].ok
    /\ result = <<"Some prose.">>

\* C6: query_ollama never posts more than retries requests; when all
\* retries attempts failed it has returned the empty string and slept
\* retries - 1 times, not after the last failure.
C6_Exhaustion ==
    /\ Len(outcomes) <= retries
    /\ posted = Len(outcomes)
    /\ (Len(outcomes) = retries /\ \A k \in 1..retries : ~outcomes[k].ok) =>
          /\ pc = "returned"
          /\ result = EmptyText
          /\ Len(sleeps) = retries - 1

C6_Witness ==
    /\ pc = "returned"
    /\ retries = DefaultRetries
    /\ Len(outcomes) = DefaultRetries
    /\ \A k \in 1..DefaultRetries : ~outcomes[k].ok

\* C7: analyze_content("") has zero chunks, calls query_ollama zero times
\* and returns the summary record {"", 0, 0} with an empty quiz collection
\* and an empty concept collection.
C7_EmptyDocument ==
    (entry = "analyze_content" /\ Running /\ content = EmptyText) =>
        /\ chunks = <<>>
        /\ calls = 0
        /\ pc = "returned" =>
              /\ summary_data = NoSummaryData
              /\ quiz_questions = JsonList(<<>>)
              /\ concepts = JsonList(<<>>)

\* C8: the prompt of the quiz request and of the concept request of
\* analyze_content carries the merged summary.
C8_PromptOverSummary ==
    (pc \in {"post", "sleep"} /\ site \in {"quiz", "concept"}) =>
        prompt.body = full_summary

\* C9: when the raw response parses as JSON that is not a list of records
\* with the required field, analyze_content returns for that collection
\* the one fallback record holding the raw text.
IsRecordList(v, fld) ==
    /\ v.kind = "list"
    /\ \A n \in 1..Len(v.items) : fld \in DOMAIN v.items[n]

QuizFallback(raw) ==
    JsonList(<<[question |-> raw, options |-> <<>>, correct_answer |-> EmptyText]>>)

ConceptFallback(raw) ==
    JsonList(<<[term |-> raw, category |-> <<"uncategorized">>]>>)

C9_IncompatibleShapeFallsBack ==
    (entry = "analyze_content" /\ pc = "returned") =>
        /\ (JsonLoads(quiz_response).ok
              /\ ~IsRecordList(JsonLoads(quiz_response).value, "question"))
             => quiz_questions = QuizFallback(quiz_response)
        /\ (JsonLoads(concept_response).ok
              /\ ~IsRecordList(JsonLoads(concept_response).value, "term"))
             => concepts = ConceptFallback(concept_response)

\* C10: for a raw response that is not JSON, the empty string of a failed
\* call included, the quiz result is the one-element list holding the raw
\* text with no options and an empty answer, and the concept result is the
\* one-element list holding the raw text with the default category.
NotJson == {EmptyText, <<"Some prose.">>}

C10_NonJsonFallback ==
    /\ (pc = "returned" \/ site = "concept") =>
          (quiz_response \in NotJson => quiz_questions = QuizFallback(quiz_response))
    /\ pc = "returned" =>
          (concept_response \in NotJson => concepts = ConceptFallback(concept_response))

C10_Witness ==
    /\ pc = "returned"
    /\ quiz_response = EmptyText
    /\ concept_response = <<"Some prose.">>
    /\ quiz_questions = QuizFallback(EmptyText)
    /\ Len(concepts.items) = 1

RECURSIVE Flatten(_)
Flatten(windows) ==
    IF Len(windows) = 0 THEN <<>> ELSE Head(windows) \o Flatten(Tail(windows))

\* C13: the token windows of split_text_into_chunks partition the token
\* sequence: window j is exactly the tokens at positions (j-1)s+1 .. min(js, n),
\* so the windows are contiguous, disjoint and in source order, and their
\* concatenation so far is a prefix of the tokens; chunk j decodes window j;
\* on return the concatenation is the whole sequence, every window but the last
\* has s tokens, the last has between 1 and s, and there are ceil(n/s) chunks
\* (none for an empty text, one when 0 < n <= s).
C13_Partition ==
    entry = "split_text_into_chunks" =>
      LET tokens == Encode(content)
          n == Len(tokens)
          s == chunk_size
          k == Len(chunk_tokens)
      IN
      /\ Len(chunks) = k
      /\ \A j \in 1..k :
            /\ chunk_tokens[j] = SubSeq(tokens, (j - 1) * s + 1, Min(j * s, n))
            /\ chunks[j] = Decode(chunk_tokens[j])
            /\ Len(chunk_tokens[j]) >= 1
            /\ Len(chunk_tokens[j]) <= s
            /\ j < k => Len(chunk_tokens[j]) = s
      /\ Flatten(chunk_tokens) = SubSeq(tokens, 1, Len(Flatten(chunk_tokens)))
      /\ pc = "returned" =>
            /\ Flatten(chunk_tokens) = tokens
            /\ k = (n + s - 1) \div s
            /\ n = 0 => chunks = <<>>
            /\ (0 < n /\ n <= s) => k = 1

\* three tokens split by two: a full window followed by a shorter last one
C13_Witness ==
    /\ entry = "split_text_into_chunks"
    /\ pc = "returned"
    /\ Len(chunk_tokens) = 2
    /\ Len(chunk_tokens[1]) = chunk_size
    /\ Len(chunk_tokens[2]) < chunk_size

NonEmptyResult(r) == r \notin {EmptyText, NoneValue}

\* the non-empty members of rs, in order, with one newline between neighbours
RECURSIVE NewlineJoined(_)
NewlineJoined(rs) ==
    IF Len(rs) = 0 THEN EmptyText
    ELSE LET front == NewlineJoined(SubSeq(rs, 1, Len(rs) - 1))
             last == rs[Len(rs)]
         IN IF ~NonEmptyResult(last) THEN front
            ELSE IF \A j \in 1..(Len(rs) - 1) : ~NonEmptyResult(rs[j]) THEN last
            ELSE front \o <<"\n">> \o last

\* C16: analyze_content asks for one summary per chunk, in chunk order and once
\* each (the c-th call carries chunk c, whatever earlier calls returned); the
\* summaries kept are exactly the non-empty results in chunk order, and the
\* merged summary is their newline-join: a chunk whose call failed or came back
\* empty contributes nothing.
C16_MergeOrder ==
    entry = "analyze_content" /\ pc # "call" =>
      /\ Len(chunk_results) <= Len(chunks)
      /\ summaries = SelectSeq(chunk_results, NonEmptyResult)
      /\ site = "summary" =>
            /\ calls = Len(chunk_results) + 1
            /\ prompt = summary_prompt(chunks[calls])
      /\ site \in {"quiz", "concept"} =>
            /\ Len(chunk_results) = Len(chunks)
            /\ calls > Len(chunks)
            /\ full_summary = NewlineJoined(chunk_results)
      /\ pc = "returned" => summary_data.summary = NewlineJoined(chunk_results)

\* two chunks, the first summary call failed, the second succeeded
C16_Witness ==
    /\ entry = "analyze_content"
    /\ pc = "returned"
    /\ Len(chunks) = 2
    /\ chunk_results[1] = EmptyText
    /\ chunk_results[2] # EmptyText
    /\ summary_data.summary = chunk_results[2]

\* C18: for a text of k >= 1 chunks analyze_content makes exactly k + 2
\* query_ollama calls: call c <= k is the summary request for chunk c, call k + 1
\* the quiz request, call k + 2 the concept request, whatever any call returned;
\* with the default of three attempts per call the HTTP requests sent by the time
\* it returns number at least k + 2 and at most 3 (k + 2).
C18_CallSequence ==
    entry = "analyze_content" /\ pc # "call" /\ Len(chunks) >= 1 =>
      LET k == Len(chunks) IN
      /\ calls \in 1..(k + 2)
      /\ calls <= k => site = "summary" /\ prompt = summary_prompt(chunks[calls])
      /\ calls = k + 1 => site = "quiz" /\ prompt = quiz_prompt
      /\ calls = k + 2 => site = "concept" /\ prompt = concept_prompt
      /\ posted <= DefaultRetries * calls
      /\ pc = "returned" =>
            /\ calls = k + 2
            /\ posted >= k + 2
            /\ posted <= 3 * (k + 2)

\* two chunks and every request failed: four calls, twelve requests
C18_Witness ==
    /\ entry = "analyze_content"
    /\ pc = "returned"
    /\ Len(chunks) = 2
    /\ calls = 4
    /\ posted = 12
    /\ chunk_results = <<EmptyText, EmptyText>>

IsAttemptEntry(rec) == rec.level # "error"
FailedAttempts == {j \in 1..Len(outcomes) : ~outcomes[j].ok}

\* C19 as stated: every attempt of a query_ollama call, failed or successful,
\* has its own log entry with its number and outcome, so the call has as many
\* attempt entries as attempts (three for fail, fail, succeed).
C19_EveryAttemptLogged ==
    entry = "query_ollama" =>
      LET entries == SelectSeq(attempt_log, IsAttemptEntry) IN
      /\ Len(entries) = Len(outcomes)
      /\ \A j \in 1..Len(outcomes) :
            /\ entries[j].attempt = j
            /\ entries[j].outcome = "failed" <=> ~outcomes[j].ok

\* C19 amended: query_ollama logs the failed attempts only. Each failed attempt
\* j adds one warning carrying j (counted from 1); a successful attempt adds
\* nothing; when all retries attempts failed one error entry follows the
\* warnings. The log of a call is the warnings of its failed attempts in order.
C19_FailedAttemptsLogged ==
    entry = "query_ollama" =>
      LET entries == SelectSeq(attempt_log, IsAttemptEntry)
          nfail == Cardinality(FailedAttempts)
          gaveup == pc = "returned" /\ nfail = retries
      IN
      /\ Len(entries) = nfail
      /\ \A j \in 1..nfail :
            /\ ~outcomes[j].ok
            /\ attempt_log[j] = [level |-> "warning", attempt |-> j, outcome |-> "failed"]
      /\ Len(attempt_log) = IF gaveup THEN nfail + 1 ELSE nfail
      /\ gaveup => attempt_log[nfail + 1].level = "error"

\* fail, fail, succeed: the call returns with two log entries
C19_Witness ==
    /\ entry = "query_ollama"
    /\ pc = "returned"
    /\ Len(outcomes) = 3
    /\ ~outcomes[1].ok /\ ~outcomes[2].ok /\ outcomes[3].ok
    /\ Len(attempt_log) = 2

NonEmptyCollection(v) == v.kind = "list" /\ Len(v.items) >= 1

\* C17: whatever calls failed, analyze_content returns a summary record whose
\* chunks_processed is the number of chunks of the content and whose length is
\* the length of the content, together with a non-empty quiz collection and a
\* non-empty concept collection.
C17_Degrades ==
    (entry = "analyze_content" /\ pc = "returned") =>
        /\ summary_data.chunks_processed
              = Len(split_text_into_chunks(content, ChunkSize))
        /\ summary_data.length = Len(content)
        /\ NonEmptyCollection(quiz_questions)
        /\ NonEmptyCollection(concepts)

\* C20: in the prompt-and-record chat loop, after every part the text this run
\* has added to the output file is the concatenation of the parts received so
\* far in arrival order, which is also exactly what was printed; what the file
\* held before the run stays in front of it. The print-only script prints the
\* same concatenation and leaves the file alone.
C20_StreamingOrder ==
    entry \in {"prompt-and-record", "async-stream-1"} =>
      /\ console = Flatten(received)
      /\ entry = "prompt-and-record" => out_file = out_before \o Flatten(received)
      /\ entry = "prompt-and-record" => out_file = out_before \o console
      /\ entry = "async-stream-1" => out_file = out_before

\* three parts, two of them different and non-empty, appended behind earlier
\* content of the file
C20_Witness ==
    /\ entry = "prompt-and-record"
    /\ pc = "done"
    /\ out_before # EmptyText
    /\ Len(received) = 3
    /\ received[1] # EmptyText
    /\ received[2] # EmptyText
    /\ received[1] # received[2]
    /\ out_file = out_before \o received[1] \o received[2] \o received[3]

\* C11: a failure while analysing or saving one document (the chunker raising
\* on its text, an artifact file failing to open or to be written) does not
\* end the run: the run never aborts, and when it ends every document of the
\* set has been visited.
C11_FailureIsolated ==
    entry = "process_files" =>
      /\ pc # "aborted"
      /\ pc \in {"done", "aborted"} => Len(visited) = Len(notes)

\* C12: two distinct documents found by get_markdown_files have distinct
\* artifact paths, so a finished run has skipped a document only on artifacts
\* that existed when the run started, never on files written for another
\* document during the run.
C12_KeysDistinct ==
    (entry = "process_files" /\ pc = "done") =>
      /\ \A i, j \in 1..Len(notes) : \A k \in Kinds :
            i # j => ResultFile(md_files[i], k) # ResultFile(md_files[j], k)
      /\ \A i \in 1..Len(visited) :
            visited[i].branch = "skipped" =>
              \A k \in Kinds : Exists(start, ResultFile(visited[i].file, k))

\* C14: when the process is killed during the three saves of a document, the
\* files left behind are reported incomplete by check_existing_results, so the
\* next run regenerates the document: no crash leaves all three files existing
\* with one of them truncated or left over from an earlier run.
C14_CrashSafe ==
    (entry = "process_files" /\ pc = "crashed") =>
      /\ ~check_existing_results(md_files[md_idx])
      /\ ~ /\ \A k \in Kinds : Exists(disk, ResultFile(md_files[md_idx], k))
           /\ \E k \in Kinds :
                 disk[ResultFile(md_files[md_idx], k)] \in {"partial", "earlier"}

\* C15: a visited document is either skipped because its artifacts are
\* complete or analysed with all three files saved; so after a run that ends
\* without an I/O error (every file could be read, every save succeeded)
\* every document, one with empty text included, has complete artifacts.
C15_SkipOrPersist ==
    (entry = "process_files" /\ pc = "done"
       /\ \A i \in 1..Len(notes) : notes[i].readable) =>
      /\ \A i \in 1..Len(visited) : visited[i].branch \in {"skipped", "analyzed"}
      /\ \A i \in 1..Len(visited) :
            visited[i].branch = "analyzed" =>
              \A k \in Kinds : ResultFile(visited[i].file, k) \in written
      /\ AllComplete(disk)

====
